---- MODULE Spec2Model ----
(***************************************************************************)
(* Music-theory core of MusicNotesApp: notes and intervals                 *)
(* (core/note_system.py), chords (core/chord_system.py), scales            *)
(* (core/scale_system.py) and the theory engine (core/music_theory.py).    *)
(*                                                                         *)
(* Strings that the code parses, formats or searches (note strings, chord  *)
(* and scale type names) are sequences of one-character strings, so that   *)
(* the regular expression of Note.__init__, str(int) and the substring     *)
(* tests of Chord.get_triad are modelled by what they do.                  *)
(***************************************************************************)
EXTENDS Integers, Sequences, FiniteSets, TLC

VARIABLES chord_formulas, scale_formulas, tunings, call, recv, ret, search

vars == <<chord_formulas, scale_formulas, tunings, call, recv, ret, search>>

tables == <<chord_formulas, scale_formulas, tunings>>

(***************************************************************************)
(* Bounds of the model                                                     *)
(***************************************************************************)
\* octaves written in the note strings that are enumerated: 0..MaxOctave
MaxOctave == 2
\* Note.transpose is called with semitones in -MaxSemitones..MaxSemitones
MaxSemitones == 14
\* Interval.get_name is called with semitones in -MaxInterval..MaxInterval
MaxInterval == 25
\* get_chord_positions searches with max_fret in 0..MaxFretSearched
MaxFretSearched == 5
\* the search is followed step by step with max_fret in 0..MaxFretStepped on
\* tunings of up to three strings and in 0..MaxFretDeep on longer ones
MaxFretStepped == 2
MaxFretDeep == 1

(***************************************************************************)
(* core/note_system.py : Note                                              *)
(***************************************************************************)
NOTES == << <<"C">>, <<"C", "#">>, <<"D">>, <<"D", "#">>, <<"E">>, <<"F">>,
            <<"F", "#">>, <<"G">>, <<"G", "#">>, <<"A">>, <<"A", "#">>, <<"B">> >>

\* The outcome of a call that may raise: the value it returns, or the
\* exception it raises instead.
Returned(v) == [raised |-> "None", value |-> v]

Raised(e) == [raised |-> e]

ValueError == "ValueError"

\* list.index(x), 0-based; -1 stands for the ValueError of a missing element
Index(list, x) ==
  IF \E i \in 1..Len(list) : list[i] = x
  THEN (CHOOSE i \in 1..Len(list) :
          list[i] = x /\ \A j \in 1..(i - 1) : list[j] # x) - 1
  ELSE -1

DigitChars == <<"0", "1", "2", "3", "4", "5", "6", "7", "8", "9">>

IsDigit(c) == \E i \in 1..Len(DigitChars) : DigitChars[i] = c

\* regex [A-G]
IsLetter(c) == c \in {"A", "B", "C", "D", "E", "F", "G"}

\* regex [#b]
IsAccidental(c) == c \in {"#", "b"}

\* end of the greedy match of \d+ that starts at position p (p - 1 when none)
RECURSIVE DigitsEnd(_, _)
DigitsEnd(s, p) ==
  IF p <= Len(s) /\ IsDigit(s[p]) THEN DigitsEnd(s, p + 1) ELSE p - 1

\* int() of a non-empty sequence of decimal digits
RECURSIVE ParseInt(_)
ParseInt(d) ==
  IF Len(d) = 0 THEN 0
  ELSE 10 * ParseInt(SubSeq(d, 1, Len(d) - 1)) + Index(DigitChars, d[Len(d)])

\* str() of a natural number
RECURSIVE NatStr(_)
NatStr(n) ==
  IF n < 10 THEN <<DigitChars[n + 1]>>
  ELSE NatStr(n \div 10) \o <<DigitChars[(n % 10) + 1]>>

\* str() of an int: f"{new_octave}"
IntStr(i) == IF i < 0 THEN <<"-">> \o NatStr(-i) ELSE NatStr(i)

\* Note.__init__: re.match(r'([A-G][#b]?)(\d+)?', note_str), octave default 4,
\* flats normalised to the sharp name one index below the letter
NoteInit(note_str) ==
  IF Len(note_str) = 0 \/ ~IsLetter(note_str[1]) THEN Raised(ValueError)
  ELSE
    LET nameEnd  == IF Len(note_str) >= 2 /\ IsAccidental(note_str[2]) THEN 2 ELSE 1
        group1   == SubSeq(note_str, 1, nameEnd)
        digEnd   == DigitsEnd(note_str, nameEnd + 1)
        group2   == SubSeq(note_str, nameEnd + 1, digEnd)
        octave   == IF Len(group2) > 0 THEN ParseInt(group2) ELSE 4
        hasFlat  == \E i \in 1..Len(group1) : group1[i] = "b"
        idx      == Index(NOTES, <<group1[1]>>)
        name     == IF hasFlat THEN NOTES[((idx - 1) % 12) + 1] ELSE group1
    IN Returned([name |-> name, octave |-> octave])

\* NOTES.index(self.name) raises ValueError for a name outside NOTES
NameKnown(n) == Index(NOTES, n.name) # -1

\* Note.midi_number, where NOTES.index(self.name) does not raise
midi_number(n) == ((n.octave + 1) * 12) + Index(NOTES, n.name)

\* __str__ without the octave
NoteStr_name_only(n) == n.name

\* Note.__str__
NoteStr(n) == n.name \o IntStr(n.octave)

\* Note.transpose: the new note is built by formatting and re-parsing
transpose(n, semitones) ==
  IF ~NameKnown(n) THEN Raised(ValueError)
  ELSE
    LET new_midi   == midi_number(n) + semitones
        new_octave == (new_midi \div 12) - 1
        new_name   == NOTES[(new_midi % 12) + 1]
    IN NoteInit(new_name \o IntStr(new_octave))

\* Note.get_interval
get_interval(n, other) == midi_number(other) - midi_number(n)

(***************************************************************************)
(* core/note_system.py : Interval                                          *)
(***************************************************************************)
INTERVALS == <<
  [name |-> "P1", value |-> 0],  [name |-> "m2", value |-> 1],
  [name |-> "M2", value |-> 2],  [name |-> "m3", value |-> 3],
  [name |-> "M3", value |-> 4],  [name |-> "P4", value |-> 5],
  [name |-> "TT", value |-> 6],  [name |-> "P5", value |-> 7],
  [name |-> "m6", value |-> 8],  [name |-> "M6", value |-> 9],
  [name |-> "m7", value |-> 10], [name |-> "M7", value |-> 11],
  [name |-> "P8", value |-> 12] >>

\* Interval.get_name: first entry, in insertion order, equal to semitones % 12
get_name(semitones) ==
  LET hits == {i \in 1..Len(INTERVALS) : INTERVALS[i].value = semitones % 12}
  IN IF hits = {} THEN "Unknown"
     ELSE INTERVALS[CHOOSE i \in hits : \A j \in hits : i <= j].name

(***************************************************************************)
(* core/chord_system.py : Chord                                            *)
(***************************************************************************)
\* _build_notes with the first offset applied like the others (an offset of 0
\* gives the root itself)
build_notes_all_offsets(root, formula) ==
  IF Len(formula) = 0 THEN <<root>>
  ELSE [i \in 1..Len(formula) |->
          IF formula[i] = 0 THEN root ELSE transpose(root, formula[i]).value]

\* Chord._build_notes / Scale._build_notes: the root, then the root transposed
\* by every offset of formula[1:] (a root whose transpose raises builds nothing)
build_notes(root, formula) ==
  <<root>> \o [i \in 1..(Len(formula) - 1) |-> transpose(root, formula[i + 1]).value]

\* self.root.transpose(interval) in _build_notes raises for a root whose name
\* is not in NOTES, as soon as formula[1:] is not empty
build_raises(root, formula) == Len(formula) >= 2 /\ ~NameKnown(root)

\* Chord.__init__
Chord(root, chord_type, formula) ==
  [root |-> root, chord_type |-> chord_type, formula |-> formula,
   notes |-> build_notes(root, formula)]

\* Python's `sub in text` on strings
Contains(text, sub) ==
  \E i \in 1..(Len(text) - Len(sub) + 1) : SubSeq(text, i, i + Len(sub) - 1) = sub

\* the loop `for i, note in enumerate(self.notes[1:], 1): ... break` of get_triad:
\* the 0-based index of the first note after the root whose interval from the
\* root, mod 12, is in wanted; <<>> when the loop ends without a break
first_interval_index(chord, wanted) ==
  LET hits == {i \in 2..Len(chord.notes) :
                 (get_interval(chord.root, chord.notes[i]) % 12) \in wanted}
  IN IF hits = {} THEN <<>>
     ELSE <<(CHOOSE i \in hits : \A j \in hits : i <= j) - 1>>

\* get_triad that hands back the whole chord
get_triad_whole_chord(chord) == chord.notes

\* get_triad with the sus2/sus4 branches lost: always looks for a third
get_triad_no_sus(chord) ==
  IF Len(chord.notes) < 3 THEN chord.notes
  ELSE
    LET third == first_interval_index(chord, {3, 4})
        fifth == first_interval_index(chord, {7})
        triad_indices == <<0>> \o third \o fifth
    IN [k \in 1..Len(triad_indices) |-> chord.notes[triad_indices[k] + 1]]

\* Chord.get_triad
get_triad(chord) ==
  IF Len(chord.notes) < 3 THEN chord.notes
  ELSE
    LET third ==
          IF Contains(chord.chord_type, <<"s", "u", "s", "2">>) THEN first_interval_index(chord, {2})
          ELSE IF Contains(chord.chord_type, <<"s", "u", "s", "4">>) THEN first_interval_index(chord, {5})
          ELSE first_interval_index(chord, {3, 4})
        fifth == first_interval_index(chord, {7})
        triad_indices == <<0>> \o third \o fifth
    IN [k \in 1..Len(triad_indices) |-> chord.notes[triad_indices[k] + 1]]

(***************************************************************************)
(* core/scale_system.py : Scale                                            *)
(***************************************************************************)
\* Scale.__init__
Scale(root, scale_type, formula) ==
  [root |-> root, scale_type |-> scale_type, formula |-> formula,
   notes |-> build_notes(root, formula)]

\* Scale.contains_note: by name, the octave is ignored
contains_note(scale, note) ==
  \E i \in 1..Len(scale.notes) : scale.notes[i].name = note.name

\* mode_formula without the reduction mod 12
mode_formula_no_wrap(scale, degree) ==
  [k \in 1..Len(scale.notes) |->
     LET i   == k - 1
         idx == (degree - 1 + i) % Len(scale.notes)
     IN IF i = 0 THEN 0
        ELSE scale.formula[idx + 1] - scale.formula[degree]]

\* mode_formula without the rotation: the offsets are taken in the order of
\* the original formula
mode_formula_no_rotation(scale, degree) ==
  [k \in 1..Len(scale.notes) |->
     IF k = 1 THEN 0
     ELSE (scale.formula[k] - scale.formula[degree]) % 12]

\* the mode_formula list that the loop of Scale.get_mode builds
mode_formula(scale, degree) ==
  [k \in 1..Len(scale.notes) |->
     LET i   == k - 1
         idx == (degree - 1 + i) % Len(scale.notes)
     IN IF i = 0 THEN 0
        ELSE (scale.formula[idx + 1] - scale.formula[degree]) % 12]

\* get_mode that clamps the degree into 1..len(notes) and never raises
get_mode_clamped(scale, degree) ==
  LET d == IF degree < 1 THEN 1
           ELSE IF degree > Len(scale.notes) THEN Len(scale.notes) ELSE degree
  IN Returned(Scale(scale.notes[d],
                    scale.scale_type \o <<" ", "m", "o", "d", "e", " ">> \o IntStr(d),
                    mode_formula(scale, d)))

\* Scale.get_mode
get_mode(scale, degree) ==
  IF degree < 1 \/ degree > Len(scale.notes) THEN Raised(ValueError)
  ELSE Returned(Scale(scale.notes[degree],
                    scale.scale_type \o <<" ", "m", "o", "d", "e", " ">> \o IntStr(degree),
                    mode_formula(scale, degree)))

(***************************************************************************)
(* core/music_theory.py : MusicTheory                                      *)
(***************************************************************************)
\* The tables that _load_data reads from chord_formulas.json,
\* scale_formulas.json and tunings.json.  A table is a dict in the order of
\* the file: a sequence of entries, each a key `name` and its value.
\* chord_formulas.json: chord type name -> formula
CHORD_FORMULAS == <<
  [name |-> <<"M", "a", "j", "o", "r">>, formula |-> <<0, 4, 7>>],
  [name |-> <<"M", "i", "n", "o", "r">>, formula |-> <<0, 3, 7>>],
  [name |-> <<"7">>, formula |-> <<0, 4, 7, 10>>],
  [name |-> <<"m", "a", "j", "7">>, formula |-> <<0, 4, 7, 11>>],
  [name |-> <<"m", "7">>, formula |-> <<0, 3, 7, 10>>],
  [name |-> <<"s", "u", "s", "2">>, formula |-> <<0, 2, 7>>],
  [name |-> <<"s", "u", "s", "4">>, formula |-> <<0, 5, 7>>],
  [name |-> <<"a", "u", "g">>, formula |-> <<0, 4, 8>>],
  [name |-> <<"d", "i", "m">>, formula |-> <<0, 3, 6>>],
  [name |-> <<"9">>, formula |-> <<0, 4, 7, 10, 14>>] >>

\* scale_formulas.json: scale type name -> formula
SCALE_FORMULAS == <<
  [name |-> <<"M", "a", "j", "o", "r">>, formula |-> <<0, 2, 4, 5, 7, 9, 11>>],
  [name |-> <<"M", "i", "n", "o", "r">>, formula |-> <<0, 2, 3, 5, 7, 8, 10>>],
  [name |-> <<"P", "e", "n", "t", "a", "t", "o", "n", "i", "c", " ", "M", "a", "j", "o", "r">>, formula |-> <<0, 2, 4, 7, 9>>],
  [name |-> <<"P", "e", "n", "t", "a", "t", "o", "n", "i", "c", " ", "M", "i", "n", "o", "r">>, formula |-> <<0, 3, 5, 7, 10>>],
  [name |-> <<"B", "l", "u", "e", "s">>, formula |-> <<0, 3, 5, 6, 7, 10>>] >>

\* tunings.json: tuning name -> the note strings of the open strings
TUNINGS == <<
  [name |-> "standard", notes |-> <<<<"E", "2">>, <<"A", "2">>, <<"D", "3">>, <<"G", "3">>, <<"B", "3">>, <<"E", "4">>>>],
  [name |-> "banjo", notes |-> <<<<"G", "4">>, <<"D", "3">>, <<"G", "3">>, <<"B", "3">>, <<"D", "4">>>>],
  [name |-> "ukulele", notes |-> <<<<"G", "4">>, <<"C", "4">>, <<"E", "4">>, <<"A", "4">>>>],
  [name |-> "open_g", notes |-> <<<<"G", "3">>, <<"B", "3">>, <<"D", "4">>>>],
  [name |-> "one_string", notes |-> <<<<"E", "2">>>>] >>

\* A data file as _load_data finds it: kind is "missing" (no such file),
\* "undecodable" (bytes that are no text in the encoding of open()),
\* "not_json" (text that json cannot parse), "other_json" (JSON that is not a
\* table of the expected shape) or "table"; value is what json.load yields.
DataFile(kind, value) == [kind |-> kind, value |-> value]

\* with open(path, "r") as f: json.load(f)
json_load(file) ==
  IF file.kind = "missing" THEN Raised("FileNotFoundError")
  ELSE IF file.kind = "undecodable" THEN Raised("UnicodeDecodeError")
  ELSE IF file.kind = "not_json" THEN Raised("JSONDecodeError")
  ELSE Returned(file.value)

\* the except clauses of _load_data: FileNotFoundError and JSONDecodeError
\* become RuntimeError, any other exception goes on as it is
load_error(e) ==
  IF e \in {"FileNotFoundError", "JSONDecodeError"} THEN Raised("RuntimeError")
  ELSE Raised(e)

\* MusicTheory.__init__ / _load_data: the three files are read in turn; the
\* first exception ends the construction, otherwise the engine holds what
\* the three files yielded
load_data(files) ==
  LET chords == json_load(files.chord_formulas)
      scales == json_load(files.scale_formulas)
      tuns   == json_load(files.tunings)
  IN IF chords.raised # "None" THEN load_error(chords.raised)
     ELSE IF scales.raised # "None" THEN load_error(scales.raised)
     ELSE IF tuns.raised # "None" THEN load_error(tuns.raised)
     ELSE Returned([chord_formulas |-> chords.value,
                    scale_formulas |-> scales.value,
                    tunings        |-> tuns.value])

\* what is left of a list handed to a constructor as formula when _build_notes
\* has read it: all but its first element
formula_after_build_consumed(formula) ==
  IF formula = <<>> THEN <<>> ELSE Tail(formula)

\* what a list handed to a constructor as formula holds when _build_notes
\* has read it: self.formula[1:] is a list of its own, the list read stays
\* as it was
formula_after_build(formula) == formula

\* a table after the engine has constructed Chords or Scales from its
\* entries of the given types
after_build(table, types) ==
  [i \in 1..Len(table) |->
     IF table[i].name \in types
     THEN [table[i] EXCEPT !.formula = formula_after_build(@)]
     ELSE table[i]]

\* `key in table`
HasKey(table, key) == \E i \in 1..Len(table) : table[i].name = key

\* `table[key]`, for a key of the table
Lookup(table, key) == table[CHOOSE i \in 1..Len(table) : table[i].name = key]

\* get_chord that falls back to the first chord type for an unknown name
get_chord_fallback(chords, root, chord_type) ==
  IF ~HasKey(chords, chord_type)
  THEN Returned(Chord(root, chords[1].name, chords[1].formula))
  ELSE Returned(Chord(root, chord_type, Lookup(chords, chord_type).formula))

\* MusicTheory.get_chord
get_chord(chords, root, chord_type) ==
  IF ~HasKey(chords, chord_type) THEN Raised(ValueError)
  ELSE Returned(Chord(root, chord_type, Lookup(chords, chord_type).formula))

\* MusicTheory.get_scale
get_scale(scales, root, scale_type) ==
  IF ~HasKey(scales, scale_type) THEN Raised(ValueError)
  ELSE Returned(Scale(root, scale_type, Lookup(scales, scale_type).formula))

\* all_in_scale with the last chord tone left unchecked
all_in_scale_skip_last(scale, degree, formula) ==
  \A k \in 1..(Len(formula) - 1) : contains_note(scale, transpose(degree, formula[k]).value)

\* the all_in_scale flag of get_chords_in_scale for one degree and one formula
all_in_scale(scale, degree, formula) ==
  \A k \in 1..Len(formula) : contains_note(scale, transpose(degree, formula[k]).value)

\* get_chords_in_scale with the loops swapped: chord types in the outer loop,
\* degrees in the inner loop
get_chords_in_scale_types_outer(chords, scale) ==
  LET n        == Len(scale.notes)
      pairs    == [k \in 1..(n * Len(chords)) |->
                     [degree |-> scale.notes[((k - 1) % n) + 1],
                      entry  |-> chords[((k - 1) \div n) + 1]]]
      Passes(p) == all_in_scale(scale, p.degree, p.entry.formula)
      passed   == SelectSeq(pairs, Passes)
  IN [k \in 1..Len(passed) |->
        Chord(passed[k].degree, passed[k].entry.name, passed[k].entry.formula)]

\* MusicTheory.get_chords_in_scale: degrees in the outer loop, chord types in
\* the inner loop, a chord appended for every pair that passes
get_chords_in_scale(chords, scale) ==
  LET m        == Len(chords)
      pairs    == [k \in 1..(Len(scale.notes) * m) |->
                     [degree |-> scale.notes[((k - 1) \div m) + 1],
                      entry  |-> chords[((k - 1) % m) + 1]]]
      Passes(p) == all_in_scale(scale, p.degree, p.entry.formula)
      passed   == SelectSeq(pairs, Passes)
  IN [k \in 1..Len(passed) |->
        Chord(passed[k].degree, passed[k].entry.name, passed[k].entry.formula)]

\* get_scales_for_chord that tries every chord note but the root
get_scales_for_chord_skip_root(scales, chord) ==
  LET m        == Len(chord.notes) - 1
      cands    == [k \in 1..(Len(scales) * m) |->
                     Scale(chord.notes[((k - 1) % m) + 2],
                           scales[((k - 1) \div m) + 1].name,
                           scales[((k - 1) \div m) + 1].formula)]
      Passes(sc) == \A j \in 1..Len(chord.notes) : contains_note(sc, chord.notes[j])
  IN SelectSeq(cands, Passes)

\* get_scales_for_chord that tries the chord's root only
get_scales_for_chord_root_only(scales, chord) ==
  LET cands    == [k \in 1..Len(scales) |->
                     Scale(chord.notes[1], scales[k].name, scales[k].formula)]
      Passes(sc) == \A j \in 1..Len(chord.notes) : contains_note(sc, chord.notes[j])
  IN SelectSeq(cands, Passes)

\* MusicTheory.get_scales_for_chord: scale types in the outer loop, chord notes
\* in the inner loop
get_scales_for_chord(scales, chord) ==
  LET m        == Len(chord.notes)
      cands    == [k \in 1..(Len(scales) * m) |->
                     Scale(chord.notes[((k - 1) % m) + 1],
                           scales[((k - 1) \div m) + 1].name,
                           scales[((k - 1) \div m) + 1].formula)]
      Passes(sc) == \A j \in 1..Len(chord.notes) : contains_note(sc, chord.notes[j])
  IN SelectSeq(cands, Passes)

\* ChordPosition(frets, fingers, barre); barre is <<>> for None and
\* <<string, fret>> for a tuple
ChordPosition(frets, fingers, barre) ==
  [frets |-> frets, fingers |-> fingers, barre |-> barre]

\* max() of a non-empty list of ints
MaxOf(list) == CHOOSE x \in {list[i] : i \in 1..Len(list)} :
                 \A i \in 1..Len(list) : list[i] <= x

\* [tuning_notes[i].transpose(fret) ...]: fretted[i][fret + 1] is the note of
\* string i at that fret, transposed once for every string and fret
FrettedNotes(tuning_notes, max_fret) ==
  [i \in 1..Len(tuning_notes) |->
     <<>> \o [f \in 1..(max_fret + 1) |-> transpose(tuning_notes[i], f - 1).value]]

\* record_position with the note of the first string left unmatched: only
\* the other strings have to sound chord tones
record_position_skip_first(fretted, chord, current_frets, current_fingers) ==
  IF \A i \in 2..Len(current_frets) :
       \E j \in 1..Len(chord.notes) :
          fretted[i][current_frets[i] + 1].name = chord.notes[j].name
  THEN <<ChordPosition(current_frets, current_fingers, <<>>)>>
  ELSE <<>>

\* record_position that never detects a barre
record_position_no_barre(fretted, chord, current_frets, current_fingers) ==
  IF \A i \in 1..Len(current_frets) :
       \E j \in 1..Len(chord.notes) :
          fretted[i][current_frets[i] + 1].name = chord.notes[j].name
  THEN <<ChordPosition(current_frets, current_fingers, <<>>)>>
  ELSE <<>>

\* the base case of find_positions: the list of the position appended for a
\* complete assignment, empty when some fretted note is no chord tone
record_position(fretted, chord, current_frets, current_fingers) ==
  IF \A i \in 1..Len(current_frets) :
       \E j \in 1..Len(chord.notes) :
          fretted[i][current_frets[i] + 1].name = chord.notes[j].name
  THEN LET barre ==
             IF /\ Cardinality({current_frets[i] : i \in 1..Len(current_frets)}) = 1
                /\ current_frets[1] > 0
             THEN <<0, current_frets[1]>>
             ELSE <<>>
       IN <<ChordPosition(current_frets, current_fingers, barre)>>
  ELSE <<>>

\* `current_frets and abs(fret - current_frets[-1]) > 4`: the stretch that is
\* skipped
impossible_stretch(current_frets, fret) ==
  /\ Len(current_frets) > 0
  /\ LET d == fret - current_frets[Len(current_frets)]
     IN (IF d < 0 THEN -d ELSE d) > 4

\* only the finger of the string before is taken as used
finger_used_by_previous(current_fingers, finger) ==
  /\ Len(current_fingers) > 0
  /\ current_fingers[Len(current_fingers)] = finger

\* `finger in current_fingers`: the finger is already used
finger_in_use(current_fingers, finger) ==
  \E i \in 1..Len(current_fingers) : current_fingers[i] = finger

\* the (fret, finger) pairs for which the two loops of find_positions reach
\* the recursive call, in the order of the loops
candidates(max_fret, current_frets, current_fingers) ==
  LET Reachable(fret) == ~impossible_stretch(current_frets, fret)
      Unused(finger)  == ~finger_in_use(current_fingers, finger)
      frets   == SelectSeq([f \in 1..(max_fret + 1) |-> f - 1], Reachable)
      fingers == SelectSeq(<<1, 2, 3, 4>>, Unused)
      m       == Len(fingers)
  IN IF m = 0 THEN <<>>
     ELSE <<>> \o [k \in 1..(Len(frets) * m) |->
                     [fret   |-> frets[((k - 1) \div m) + 1],
                      finger |-> fingers[((k - 1) % m) + 1]]]

\* find_positions: the positions that the call for current_string appends to
\* `positions`, in order; try_each is the recursive calls of its loops from the
\* k-th candidate on
RECURSIVE find_positions(_, _, _, _, _, _), try_each(_, _, _, _, _, _, _, _)
find_positions(fretted, chord, max_fret, current_string, current_frets, current_fingers) ==
  IF current_string = Len(fretted)
  THEN record_position(fretted, chord, current_frets, current_fingers)
  ELSE try_each(fretted, chord, max_fret, current_string, current_frets,
                current_fingers, candidates(max_fret, current_frets, current_fingers), 1)

try_each(fretted, chord, max_fret, current_string, current_frets, current_fingers, cands, k) ==
  IF k > Len(cands) THEN <<>>
  ELSE find_positions(fretted, chord, max_fret, current_string + 1,
                      Append(current_frets, cands[k].fret),
                      Append(current_fingers, cands[k].finger))
       \o try_each(fretted, chord, max_fret, current_string, current_frets,
                   current_fingers, cands, k + 1)

\* the sort key of a position: (len(p.fingers), max(p.frets))
sort_key(p) == <<Len(p.fingers), MaxOf(p.frets)>>

\* tuple comparison a <= b of two sort keys
KeyLE(a, b) == a[1] < b[1] \/ (a[1] = b[1] /\ a[2] <= b[2])

\* the sort left out: the positions stay in the order they were found
sort_positions_not_sorted(positions) == positions

\* list.sort(key=...): stable, ascending; elements of equal key keep their
\* order.  The place of element i is one more than the number of elements
\* that the sort puts before it.
sort_positions(positions) ==
  LET n            == Len(positions)
      keys         == <<>> \o [i \in 1..n |-> sort_key(positions[i])]
      Before(j, i) == IF keys[j] = keys[i] THEN j < i ELSE KeyLE(keys[j], keys[i])
      place        == <<>> \o [i \in 1..n |->
                                 Cardinality({j \in 1..n : Before(j, i)}) + 1]
  IN <<>> \o [r \in 1..n |-> positions[CHOOSE i \in 1..n : place[i] = r]]

\* positions[:10]
top_positions(positions) ==
  SubSeq(positions, 1, IF Len(positions) < 10 THEN Len(positions) ELSE 10)

\* max_fret accepted below 24 only
valid_max_fret_below_24(max_fret) == 0 <= max_fret /\ max_fret < 24

\* `0 <= max_fret <= 24`
valid_max_fret(max_fret) == 0 <= max_fret /\ max_fret <= 24

\* MusicTheory.get_chord_positions
get_chord_positions(tuning_table, chord, tuning, max_fret) ==
  IF ~HasKey(tuning_table, tuning) THEN Raised(ValueError)
  ELSE IF ~valid_max_fret(max_fret) THEN Raised(ValueError)
  ELSE
    LET strings      == Lookup(tuning_table, tuning).notes
        tuning_notes == [i \in 1..Len(strings) |-> NoteInit(strings[i]).value]
        positions    == find_positions(FrettedNotes(tuning_notes, max_fret), chord,
                                       max_fret, 0, <<>>, <<>>)
    IN Returned(top_positions(sort_positions(positions)))

(***************************************************************************)
(* ui/fretboard.py : FretboardCanvas (the triad positions)                 *)
(***************************************************************************)
\* self.strings, self.frets and self.tuning (high to low; the code counts the
\* strings from 0, canvas_tuning[s + 1] is string s)
canvas_strings == 6
canvas_frets == 15
canvas_tuning ==
  << <<"E", "4">>, <<"B", "3">>, <<"G", "3">>, <<"D", "3">>, <<"A", "2">>, <<"E", "2">> >>

\* Note(self.tuning[string_idx]).transpose(fret).name
fretted_name(string_idx, fret) ==
  transpose(NoteInit(canvas_tuning[string_idx + 1]).value, fret).value.name

\* _is_playable_triad
is_playable_triad(triad_notes) ==
  IF Len(triad_notes) # 3 THEN FALSE
  ELSE LET fret_of(i)   == triad_notes[i][2]
           string_of(i) == triad_notes[i][1]
       IN /\ \A i, j \in 1..3 : fret_of(i) - fret_of(j) <= 4
          /\ \A i, j \in 1..3 : string_of(i) - string_of(j) <= 3

\* the (string, fret) pairs that the two nested loops visit for a list of
\* strings and a start fret, in the order of the loops
window_pairs(string_order, start_fret) ==
  [k \in 1..(4 * Len(string_order)) |->
     <<string_order[((k - 1) \div 4) + 1], start_fret + ((k - 1) % 4)>>]

\* The two nested loops from the k-th pair on.  triad_notes is the list so
\* far, broken the string whose fret loop a break has left (-1: none) and
\* playable what _is_playable_triad said when the list reached three pairs.
\* The breaks leave the fret loop only: the loop over the strings goes on,
\* and what it appends later goes to the list that was recorded.
RECURSIVE scan_pairs(_, _, _, _, _, _)
scan_pairs(pairs, triad_names, k, triad_notes, broken, playable) ==
  IF k > Len(pairs) THEN [triad_notes |-> triad_notes, playable |-> playable]
  ELSE IF pairs[k][1] = broken
  THEN scan_pairs(pairs, triad_names, k + 1, triad_notes, broken, playable)
  ELSE IF fretted_name(pairs[k][1], pairs[k][2]) \in triad_names
  THEN LET appended == Append(triad_notes, pairs[k])
       IN IF Len(appended) = 3
          THEN scan_pairs(pairs, triad_names, k + 1, appended, pairs[k][1],
                          is_playable_triad(appended))
          ELSE scan_pairs(pairs, triad_names, k + 1, appended, broken, playable)
  ELSE IF Len(triad_notes) = 3
  THEN scan_pairs(pairs, triad_names, k + 1, triad_notes, pairs[k][1], playable)
  ELSE scan_pairs(pairs, triad_names, k + 1, triad_notes, broken, playable)

\* the body of the loop over start_fret: what it appends to
\* lower_string_positions and to valid_positions
positions_at(start_fret, triad_names) ==
  LET lower == scan_pairs(window_pairs(<<5, 4, 3>>, start_fret), triad_names,
                          1, <<>>, -1, FALSE)
      every == scan_pairs(window_pairs([s \in 1..canvas_strings |-> s - 1], start_fret),
                          triad_names, 1, <<>>, -1, FALSE)
  IN IF Len(lower.triad_notes) >= 3
     THEN [lower |-> IF lower.playable THEN <<lower.triad_notes>> ELSE <<>>,
           valid |-> <<>>]
     ELSE [lower |-> <<>>,
           valid |-> IF every.playable THEN <<every.triad_notes>> ELSE <<>>]

\* lower_string_positions and valid_positions after the loop over
\* start_fret in range(self.frets - 3), from start fret n on
RECURSIVE found_positions(_, _)
found_positions(n, triad_names) ==
  IF n >= canvas_frets - 3 THEN [lower |-> <<>>, valid |-> <<>>]
  ELSE LET here == positions_at(n, triad_names)
           rest == found_positions(n + 1, triad_names)
       IN [lower |-> here.lower \o rest.lower, valid |-> here.valid \o rest.valid]

\* the positions that the random choice can yield: with both lists filled,
\* random.choice(lower_string_positions) or random.choice(all_positions);
\* else a choice from the list that is filled; none when both are empty
selectable_positions(chord) ==
  LET triad == get_triad(chord)
      found == found_positions(0, {triad[i].name : i \in 1..Len(triad)})
      Range(list) == {list[i] : i \in 1..Len(list)}
  IN Range(found.lower) \cup Range(found.valid)

(***************************************************************************)
(* Inputs                                                                  *)
(***************************************************************************)
\* characters that may follow the note in a note string
Trailers == {<<>>, <<"x">>}

\* note strings handed to Note(...): letter, optional accidental, optional
\* octave, and possibly a character after them
NoteStrings ==
  { <<l>> \o a \o o \o t :
      l \in {"A", "B", "C", "D", "E", "F", "G", "H"},
      a \in {<<>>, <<"#">>, <<"b">>},
      o \in {<<>>} \cup {IntStr(k) : k \in 0..MaxOctave},
      t \in Trailers }

\* note strings with an octave of two digits
LongOctaveStrings ==
  { <<"A", "1", "0">>, <<"C", "#", "0", "4">>, <<"G", "b", "1", "2">> }

\* the Note objects that construction yields
Notes == {NoteInit(s).value : s \in {t \in NoteStrings : NoteInit(t).raised = "None"}}

\* the Notes whose name is one of NOTES
CanonicalNotes == {n \in Notes : NameKnown(n)}

\* roots of the chords and scales that are built
Roots == CanonicalNotes

\* (type name, formula) pairs handed to Chord(...): the entries of the chord
\* table and formulas that are not in it
ChordShapes ==
  {[name |-> CHORD_FORMULAS[i].name, formula |-> CHORD_FORMULAS[i].formula] :
     i \in 1..Len(CHORD_FORMULAS)} \cup
  { [name |-> <<"M", "a", "j", "o", "r">>, formula |-> <<0>>],
    [name |-> <<"M", "a", "j", "o", "r">>, formula |-> <<0, 4>>],
    [name |-> <<"M", "a", "j", "o", "r">>, formula |-> <<0, 7, 4>>],
    [name |-> <<"M", "a", "j", "o", "r">>, formula |-> <<0, 4, 19>>],
    [name |-> <<"M", "a", "j", "o", "r">>, formula |-> <<0, 16, 7>>],
    [name |-> <<"M", "a", "j", "o", "r">>, formula |-> <<0, 5, 7>>],
    [name |-> <<"M", "i", "n", "o", "r">>, formula |-> <<0, 3, 4, 7>>],
    [name |-> <<"7", "s", "u", "s", "4">>, formula |-> <<0, 5, 7, 10>>],
    [name |-> <<"s", "u", "s", "2">>, formula |-> <<0, 4, 7, 14>>],
    [name |-> <<"a", "d", "d", "9">>, formula |-> <<0, 2, 6>>] }

\* (type name, formula) pairs handed to Scale(...): the entries of the scale
\* table and formulas that are not in it
ScaleShapes ==
  {[name |-> SCALE_FORMULAS[i].name, formula |-> SCALE_FORMULAS[i].formula] :
     i \in 1..Len(SCALE_FORMULAS)} \cup
  { [name |-> <<"W", "h", "o", "l", "e">>, formula |-> <<0, 2, 4, 6, 8, 10>>],
    [name |-> <<"O", "d", "d">>, formula |-> <<0, 7, 2, 14>>],
    [name |-> <<"S", "h", "i", "f", "t", "e", "d">>, formula |-> <<2, 4, 7>>] }

\* (type name, formula) pairs handed to Chord(...) and Scale(...) with a
\* formula that is empty or does not start at 0
EdgeShapes ==
  { [name |-> <<"M", "a", "j", "o", "r">>, formula |-> <<>>],
    [name |-> <<"M", "a", "j", "o", "r">>, formula |-> <<3, 7>>] }

\* the states in which a data file holding a table may be found; [1, 2] is
\* JSON that json.load accepts and that is no table
DataFiles(table) ==
  { DataFile("missing", <<>>), DataFile("undecodable", <<>>),
    DataFile("not_json", <<>>), DataFile("other_json", <<1, 2>>),
    DataFile("table", table) }

\* the chords shown on the fretboard
CanvasChords ==
  {Chord(root, shape.name, shape.formula) :
     root \in {n \in Roots : n.octave = 4}, shape \in ChordShapes}

\* roots of the scales whose chords are queried back: one per pitch class
CrossRoots == {n \in Roots : n.octave = 4}

\* type names asked of get_chord and get_scale
TypeNames ==
  {CHORD_FORMULAS[i].name : i \in 1..Len(CHORD_FORMULAS)} \cup
  {SCALE_FORMULAS[i].name : i \in 1..Len(SCALE_FORMULAS)} \cup
  {<<"N", "o", "t", "A", "R", "e", "a", "l", "T", "y", "p", "e">>,
   <<"m", "a", "j", "o", "r">>}

\* the chords whose positions are searched
PositionChords ==
  { Chord([name |-> <<"C">>, octave |-> 4], <<"M", "a", "j", "o", "r">>, <<0, 4, 7>>),
    Chord([name |-> <<"A">>, octave |-> 4], <<"M", "i", "n", "o", "r">>, <<0, 3, 7>>),
    Chord([name |-> <<"A">>, octave |-> 4], <<"M", "a", "j", "o", "r">>, <<0, 4, 7>>),
    Chord([name |-> <<"G">>, octave |-> 4], <<"d", "i", "m">>, <<0, 3, 6>>) }

\* tuning names asked of get_chord_positions
TuningNames == {TUNINGS[i].name : i \in 1..Len(TUNINGS)} \cup {"no_such_tuning"}

\* max_fret values asked of get_chord_positions: the searched range and one
\* value on either side of the accepted range 0..24
MaxFrets == (-1..MaxFretSearched) \cup {25}

\* the chords whose search is followed step by step
SearchChords ==
  { Chord([name |-> <<"G">>, octave |-> 4], <<"M", "a", "j", "o", "r">>, <<0, 4, 7>>),
    Chord([name |-> <<"C">>, octave |-> 4], <<"M", "a", "j", "o", "r">>, <<0, 4, 7>>) }

\* the calls of get_chord_positions that are followed step by step: every
\* rejected call, and the accepted ones whose search is short enough (any
\* max_fret on one string, the low ones on more)
SearchCalls ==
  { c \in [chord : SearchChords, tuning : TuningNames,
           max_fret : (-1..MaxFretStepped) \cup {24, 25}] :
      \/ ~HasKey(TUNINGS, c.tuning)
      \/ ~valid_max_fret(c.max_fret)
      \/ LET n == Len(Lookup(TUNINGS, c.tuning).notes)
         IN \/ n = 1
            \/ n <= 3 /\ c.max_fret <= MaxFretStepped
            \/ c.max_fret <= MaxFretDeep }

(***************************************************************************)
(* State machine                                                           *)
(***************************************************************************)
\* call: the call in progress and its arguments; ret: its outcome, Returned(v)
\* or Raised(e); recv: the object the method was called on, or the Chord or
\* Scale handed to a query of the engine, as the call leaves it ("None" for a
\* constructor, a class method or another engine call).
\* search: the position of get_chord_positions when it is followed step by
\* step: pc, fretted (the notes of tuning_notes at every fret), the stack of the loop variables (fret,
\* finger) of the active calls of find_positions, the lists current_frets,
\* current_fingers and positions, and the part of positions that the sort
\* has placed.
\* no call of the core is in progress: the caller holds no result
Idle == call.op = "idle"

\* what ret is while no call is in progress
NoResult == Returned(<<>>)

\* no search is under way
SearchIdle ==
  [pc |-> "idle", fretted |-> <<>>, stack |-> <<>>, current_frets |-> <<>>,
   current_fingers |-> <<>>, positions |-> <<>>, sorted |-> <<>>]

Init ==
  /\ chord_formulas = CHORD_FORMULAS
  /\ scale_formulas = SCALE_FORMULAS
  /\ tunings = TUNINGS
  /\ call = [op |-> "idle"]
  /\ recv = "None"
  /\ ret = NoResult
  /\ search = SearchIdle

\* the caller is done with the result of the last call
Return ==
  /\ ~Idle
  /\ search.pc \in {"idle", "done"}
  /\ call' = [op |-> "idle"]
  /\ recv' = "None"
  /\ ret' = NoResult
  /\ search' = SearchIdle
  /\ UNCHANGED tables

\* Note(note_str)
NoteNew ==
  /\ Idle
  /\ \E s \in NoteStrings :
       /\ call' = [op |-> "Note", note_str |-> s]
       /\ recv' = "None"
       /\ ret' = NoteInit(s)
       /\ UNCHANGED <<tables, search>>

\* self.transpose(semitones)
Transpose ==
  /\ Idle
  /\ \E n \in Notes, s \in (-MaxSemitones)..MaxSemitones :
       /\ call' = [op |-> "transpose", self |-> n, semitones |-> s]
       /\ recv' = n
       /\ ret' = transpose(n, s)
       /\ UNCHANGED <<tables, search>>

\* str(self)
NoteToStr ==
  /\ Idle
  /\ \E n \in Notes \cup {NoteInit(t).value : t \in LongOctaveStrings} :
       /\ call' = [op |-> "str", self |-> n]
       /\ recv' = n
       /\ ret' = Returned(NoteStr(n))
       /\ UNCHANGED <<tables, search>>

\* Interval.get_name(semitones)
GetName ==
  /\ Idle
  /\ \E s \in (-MaxInterval)..MaxInterval :
       /\ call' = [op |-> "get_name", semitones |-> s]
       /\ recv' = "None"
       /\ ret' = Returned(get_name(s))
       /\ UNCHANGED <<tables, search>>

\* Chord(root, chord_type, formula)
ChordNew ==
  /\ Idle
  /\ \E root \in Notes, shape \in ChordShapes \cup EdgeShapes :
       /\ call' = [op |-> "Chord", root |-> root, type |-> shape.name,
                   formula |-> shape.formula]
       /\ recv' = "None"
       /\ ret' = IF build_raises(root, shape.formula) THEN Raised(ValueError)
                 ELSE Returned(Chord(root, shape.name, shape.formula))
       /\ UNCHANGED <<tables, search>>

\* Scale(root, scale_type, formula)
ScaleNew ==
  /\ Idle
  /\ \E root \in Notes, shape \in ScaleShapes \cup EdgeShapes :
       /\ call' = [op |-> "Scale", root |-> root, type |-> shape.name,
                   formula |-> shape.formula]
       /\ recv' = "None"
       /\ ret' = IF build_raises(root, shape.formula) THEN Raised(ValueError)
                 ELSE Returned(Scale(root, shape.name, shape.formula))
       /\ UNCHANGED <<tables, search>>

\* chord.get_triad()
GetTriad ==
  /\ Idle
  /\ \E root \in Roots, shape \in ChordShapes :
       LET chord == Chord(root, shape.name, shape.formula)
       IN /\ call' = [op |-> "get_triad", self |-> chord]
          /\ recv' = chord
          /\ ret' = Returned(get_triad(chord))
          /\ UNCHANGED <<tables, search>>

\* scale.get_mode(degree)
GetMode ==
  /\ Idle
  /\ \E root \in Roots, shape \in ScaleShapes :
       LET scale == Scale(root, shape.name, shape.formula)
       IN \E degree \in 0..(Len(scale.notes) + 1) :
            /\ call' = [op |-> "get_mode", self |-> scale, degree |-> degree]
            /\ recv' = scale
            /\ ret' = get_mode(scale, degree)
            /\ UNCHANGED <<tables, search>>

\* MusicTheory(data_path): the construction of another engine from a data
\* directory
MusicTheoryNew ==
  /\ Idle
  /\ \E c \in DataFiles(CHORD_FORMULAS), s \in DataFiles(SCALE_FORMULAS),
        t \in DataFiles(TUNINGS) :
       LET files == [chord_formulas |-> c, scale_formulas |-> s, tunings |-> t]
       IN /\ call' = [op |-> "MusicTheory", files |-> files]
          /\ recv' = "None"
          /\ ret' = load_data(files)
          /\ UNCHANGED <<tables, search>>

\* The Chord of get_chord (and the Scale of get_scale) holds the table's own
\* list: formula = self.chord_formulas[chord_type] is handed to the
\* constructor, which keeps it (self.formula = formula). What the caller
\* appends to the returned formula is appended to the entry of the table.
append_through_formula(table, type, x) ==
  [i \in 1..Len(table) |->
     IF table[i].name = type THEN [table[i] EXCEPT !.formula = Append(@, x)]
     ELSE table[i]]

\* get_triad returns self.notes itself for a chord with fewer than 3 notes
\* and a list of its own otherwise
triad_is_own_notes(chord) == Len(chord.notes) < 3

\* the caller appends an offset to the formula of the Chord or Scale that
\* get_chord or get_scale returned (once in the engine's lifetime)
CallerAppendsFormula ==
  /\ call.op \in {"get_chord", "get_scale"}
  /\ ret.raised = "None"
  /\ chord_formulas = CHORD_FORMULAS /\ scale_formulas = SCALE_FORMULAS
  /\ \E x \in {11} :
       /\ ret' = Returned([ret.value EXCEPT !.formula = Append(@, x)])
       /\ chord_formulas' =
            IF call.op = "get_chord"
            THEN append_through_formula(chord_formulas, call.chord_type, x)
            ELSE chord_formulas
       /\ scale_formulas' =
            IF call.op = "get_scale"
            THEN append_through_formula(scale_formulas, call.scale_type, x)
            ELSE scale_formulas
  /\ UNCHANGED <<tunings, call, recv, search>>

\* the caller appends a note to the list that get_triad returned (once)
CallerAppendsTriad ==
  /\ call.op = "get_triad"
  /\ ret.raised = "None"
  /\ recv = call.self /\ ret.value = get_triad(call.self)
  /\ \E n \in {NoteInit(<<"E", "4">>).value} :
       /\ ret' = Returned(Append(ret.value, n))
       /\ recv' = IF triad_is_own_notes(call.self)
                  THEN [recv EXCEPT !.notes = Append(@, n)]
                  ELSE recv
  /\ UNCHANGED <<tables, call, search>>

\* theory.get_chord(root, chord_type)
GetChord ==
  /\ Idle
  /\ \E root \in Roots, chord_type \in TypeNames :
       /\ call' = [op |-> "get_chord", root |-> root, chord_type |-> chord_type]
       /\ recv' = "None"
       /\ ret' = get_chord(chord_formulas, root, chord_type)
       /\ chord_formulas' = after_build(chord_formulas, {chord_type})
       /\ UNCHANGED <<scale_formulas, tunings, search>>

\* theory.get_scale(root, scale_type)
GetScale ==
  /\ Idle
  /\ \E root \in Roots, scale_type \in TypeNames :
       /\ call' = [op |-> "get_scale", root |-> root, scale_type |-> scale_type]
       /\ recv' = "None"
       /\ ret' = get_scale(scale_formulas, root, scale_type)
       /\ scale_formulas' = after_build(scale_formulas, {scale_type})
       /\ UNCHANGED <<chord_formulas, tunings, search>>

\* theory.get_chords_in_scale(scale)
GetChordsInScale ==
  /\ Idle
  /\ \E root \in Roots, shape \in ScaleShapes :
       LET scale == Scale(root, shape.name, shape.formula)
           chords == get_chords_in_scale(chord_formulas, scale)
       IN /\ call' = [op |-> "get_chords_in_scale", scale |-> scale]
          /\ recv' = scale
          /\ ret' = Returned(chords)
          /\ chord_formulas' =
               after_build(chord_formulas,
                           {chords[k].chord_type : k \in 1..Len(chords)})
          /\ UNCHANGED <<scale_formulas, tunings, search>>

\* theory.get_scales_for_chord(chord)
GetScalesForChord ==
  /\ Idle
  /\ \E root \in Roots, shape \in ChordShapes :
       LET chord == Chord(root, shape.name, shape.formula)
       IN /\ call' = [op |-> "get_scales_for_chord", chord |-> chord]
          /\ recv' = chord
          /\ ret' = Returned(get_scales_for_chord(scale_formulas, chord))
          /\ scale_formulas' =
               after_build(scale_formulas,
                           IF chord.notes = <<>> THEN {}
                           ELSE {scale_formulas[i].name :
                                   i \in 1..Len(scale_formulas)})
          /\ UNCHANGED <<chord_formulas, tunings, search>>

\* the two cross-queries in a row: s = theory.get_scale(root, scale_type),
\* c one of theory.get_chords_in_scale(s), then theory.get_scales_for_chord(c)
CrossQuery ==
  /\ Idle
  /\ \E root \in CrossRoots, t \in 1..Len(scale_formulas) :
       LET s      == get_scale(scale_formulas, root, scale_formulas[t].name).value
           chords == get_chords_in_scale(chord_formulas, s)
       IN \E k \in 1..Len(chords) :
            /\ call' = [op |-> "cross_query", scale |-> s, chord |-> chords[k]]
            /\ recv' = "None"
            /\ ret' = Returned(get_scales_for_chord(scale_formulas, chords[k]))
            /\ UNCHANGED <<tables, search>>

\* theory.get_chord_positions(chord, tuning, max_fret)
GetChordPositions ==
  /\ Idle
  /\ \E chord \in PositionChords, tuning \in TuningNames, max_fret \in MaxFrets :
       /\ call' = [op |-> "get_chord_positions", chord |-> chord,
                   tuning |-> tuning, max_fret |-> max_fret]
       /\ recv' = chord
       /\ ret' = get_chord_positions(tunings, chord, tuning, max_fret)
       /\ UNCHANGED <<tables, search>>

\* canvas.set_random_triad_position(): current_chord is <<>> for None and
\* <<chord>> otherwise, current_position <<>> for None
SetRandomTriadPosition ==
  /\ Idle
  /\ \E current_chord \in {<<>>} \cup {<<c>> : c \in CanvasChords} :
       LET canvas == [current_chord |-> current_chord, current_position |-> <<>>,
                      highlighted_notes |-> <<>>]
       IN /\ call' = [op |-> "set_random_triad_position", self |-> canvas]
          /\ ret' = Returned("None")
          /\ IF current_chord = <<>> THEN recv' = canvas
             ELSE LET choices == selectable_positions(current_chord[1])
                  IN IF choices = {} THEN recv' = canvas
                     ELSE \E new_position \in choices :
                            recv' = [canvas EXCEPT
                                       !.current_position = new_position,
                                       !.highlighted_notes = new_position]
          /\ UNCHANGED <<tables, search>>

\* --- get_chord_positions followed step by step ---------------------------
\* tuning_notes of the call under way
tuning_notes_of(c) ==
  LET strings == Lookup(tunings, c.tuning).notes
  IN [i \in 1..Len(strings) |-> NoteInit(strings[i]).value]

\* list.pop(): the list without its last element
pop(list) == SubSeq(list, 1, Len(list) - 1)

\* the finger loop keeps going where it was: the same finger is tried again
next_finger_same(finger) == finger

\* for finger in range(1, 5): the finger tried after `finger`
next_finger(finger) == finger + 1

\* list.sort(key=...) is stable: its result is that of placing the elements
\* one at a time, each behind the elements placed before it whose key is not
\* greater
insert_sorted(sorted, p) ==
  LET k == Cardinality({j \in 1..Len(sorted) :
                          KeyLE(sort_key(sorted[j]), sort_key(p))})
  IN SubSeq(sorted, 1, k) \o <<p>> \o SubSeq(sorted, k + 1, Len(sorted))

\* the top frame of the stack with its loop variables replaced
set_top(stack, fret, finger) ==
  [stack EXCEPT ![Len(stack)] = [fret |-> fret, finger |-> finger]]

\* the entry of get_chord_positions: the checks of tuning and max_fret, then
\* tuning_notes and positions = []; the search is about to be called with
\* find_positions(0, [], [])
SearchBegin ==
  /\ Idle
  /\ \E c \in SearchCalls :
       /\ call' = [op |-> "get_chord_positions", chord |-> c.chord,
                   tuning |-> c.tuning, max_fret |-> c.max_fret]
       /\ recv' = c.chord
       /\ IF ~HasKey(tunings, c.tuning) \/ ~valid_max_fret(c.max_fret)
          THEN /\ ret' = Raised(ValueError)
               /\ search' = search
          ELSE /\ ret' = [raised |-> "Pending"]
               /\ search' = [SearchIdle EXCEPT
                               !.pc = "call",
                               !.fretted = FrettedNotes(tuning_notes_of(c),
                                                        c.max_fret)]
  /\ UNCHANGED tables

\* find_positions is entered with current_string = the number of calls
\* that are active: the base case records the position and returns, any
\* other call starts its loops with fret 0 and finger 1
SearchEnter ==
  /\ search.pc = "call"
  /\ LET current_string == Len(search.stack)
     IN IF current_string = Len(search.fretted)
        THEN search' =
               [search EXCEPT
                  !.positions = @ \o record_position(
                                       search.fretted, call.chord,
                                       search.current_frets,
                                       search.current_fingers),
                  !.pc = IF current_string = 0 THEN "sort" ELSE "undo"]
        ELSE search' =
               [search EXCEPT
                  !.stack = Append(@, [fret |-> 0, finger |-> 1]),
                  !.pc = "loop"]
  /\ UNCHANGED <<tables, call, recv, ret>>

\* one test of the two loops of the innermost call of find_positions
SearchLoop ==
  /\ search.pc = "loop"
  /\ LET top    == search.stack[Len(search.stack)]
         fret   == top.fret
         finger == top.finger
     IN IF fret > call.max_fret
        THEN \* the fret loop is over: the call returns
             search' = [search EXCEPT
                          !.stack = pop(@),
                          !.pc = IF Len(search.stack) = 1 THEN "sort" ELSE "undo"]
        ELSE IF impossible_stretch(search.current_frets, fret)
        THEN search' = [search EXCEPT !.stack = set_top(@, fret + 1, 1)]
        ELSE IF finger > 4
        THEN \* the finger loop is over: next fret
             search' = [search EXCEPT !.stack = set_top(@, fret + 1, 1)]
        ELSE IF finger_in_use(search.current_fingers, finger)
        THEN search' = [search EXCEPT
                          !.stack = set_top(@, fret, next_finger(finger))]
        ELSE search' = [search EXCEPT
                          !.current_frets = Append(@, fret),
                          !.current_fingers = Append(@, finger),
                          !.pc = "call"]
  /\ UNCHANGED <<tables, call, recv, ret>>

\* the recursive call has returned: current_frets.pop(),
\* current_fingers.pop(), and the finger loop goes on
SearchUndo ==
  /\ search.pc = "undo"
  /\ LET top == search.stack[Len(search.stack)]
     IN search' = [search EXCEPT
                     !.current_frets = pop(@),
                     !.current_fingers = pop(@),
                     !.stack = set_top(@, top.fret, next_finger(top.finger)),
                     !.pc = "loop"]
  /\ UNCHANGED <<tables, call, recv, ret>>

\* find_positions(0, [], []) has returned; positions.sort(...) places the
\* next position
SearchSort ==
  /\ search.pc = "sort"
  /\ Len(search.sorted) < Len(search.positions)
  /\ search' = [search EXCEPT
                  !.sorted = insert_sorted(@, search.positions[Len(@) + 1])]
  /\ UNCHANGED <<tables, call, recv, ret>>

\* the sort is done: return positions[:10]
SearchFinish ==
  /\ search.pc = "sort"
  /\ Len(search.sorted) = Len(search.positions)
  /\ ret' = Returned(top_positions(search.sorted))
  /\ search' = [search EXCEPT !.pc = "done"]
  /\ UNCHANGED <<tables, call, recv>>

\* a step of a search under way
SearchStep ==
  SearchEnter \/ SearchLoop \/ SearchUndo \/ SearchSort \/ SearchFinish

Next ==
  \/ NoteNew \/ Transpose \/ NoteToStr \/ GetName
  \/ ChordNew \/ ScaleNew \/ GetTriad \/ GetMode
  \/ MusicTheoryNew
  \/ GetChord \/ GetScale \/ GetChordsInScale \/ GetScalesForChord
  \/ CallerAppendsFormula \/ CallerAppendsTriad
  \/ CrossQuery
  \/ GetChordPositions
  \/ SetRandomTriadPosition
  \/ SearchBegin \/ SearchEnter \/ SearchLoop \/ SearchUndo
  \/ SearchSort \/ SearchFinish
  \/ Return

Spec == Init /\ [][Next]_vars

\* the calls on Note and Interval alone
NextNotes == NoteNew \/ Transpose \/ NoteToStr \/ GetName \/ Return

SpecNotes == Init /\ [][NextNotes]_vars

\* the calls on Chord and Scale objects alone
NextChords == ChordNew \/ ScaleNew \/ GetTriad \/ GetMode \/ Return

SpecChords == Init /\ [][NextChords]_vars

\* the construction and cross-queries of the engine alone
NextEngine == GetChord \/ GetScale \/ GetChordsInScale \/ GetScalesForChord \/ Return

SpecEngine == Init /\ [][NextEngine]_vars

\* get_chord_positions followed step by step
NextSearch ==
  \/ SearchBegin \/ SearchEnter \/ SearchLoop \/ SearchUndo
  \/ SearchSort \/ SearchFinish
  \/ Return

SpecSearch == Init /\ [][NextSearch]_vars

\* the same, where a call that is under way goes on: the core is
\* synchronous and single-threaded, a call runs until it returns
SpecSearchLive == Init /\ [][NextSearch]_vars /\ WF_vars(SearchStep)

\* the queries of the engine in any order, the search step by step
NextFrame ==
  \/ GetChord \/ GetScale \/ GetChordsInScale \/ GetScalesForChord
  \/ SearchBegin \/ SearchEnter \/ SearchLoop \/ SearchUndo
  \/ SearchSort \/ SearchFinish
  \/ Return

SpecFrame == Init /\ [][NextFrame]_vars

\* the fretboard's choice of a triad position
NextFretboard == SetRandomTriadPosition \/ Return

SpecFretboard == Init /\ [][NextFretboard]_vars

\* callers that modify what get_chord, get_scale and get_triad handed out
NextCaller ==
  \/ GetChord \/ GetScale \/ GetTriad
  \/ CallerAppendsFormula \/ CallerAppendsTriad \/ Return

SpecCaller == Init /\ [][NextCaller]_vars

\* the construction of engines alone
NextLoad == MusicTheoryNew \/ Return

SpecLoad == Init /\ [][NextLoad]_vars

\* the cross-queries of the engine applied one to the result of the other
NextCross == CrossQuery \/ Return

SpecCross == Init /\ [][NextCross]_vars

\* the calls of get_chord_positions alone
NextPositions == GetChordPositions \/ Return

SpecPositions == Init /\ [][NextPositions]_vars

(***************************************************************************)
(* Claims about Note and Interval                                          *)
(***************************************************************************)
\* C4: for every Note n (with a name of NOTES) and every integer s, also one
\* that takes the pitch below octave 0, n.transpose(s).transpose(-s) == n:
\* same name and same octave.
C4_TransposeRoundTrip ==
  (call.op = "transpose" /\ NameKnown(call.self)) =>
     /\ ret.raised = "None"
     /\ transpose(ret.value, -call.semitones) = Returned(call.self)

\* C5: for every Note n (with a name of NOTES) and every integer s,
\* n.transpose(s) is a Note with midi_number n.midi_number + s, octave
\* floor(new index / 12) - 1 and pitch class new index mod 12.
C5_TransposeMidi ==
  (call.op = "transpose" /\ NameKnown(call.self)) =>
     LET new_index == midi_number(call.self) + call.semitones
     IN /\ ret.raised = "None"
        /\ midi_number(ret.value) = new_index
        /\ ret.value.octave = (new_index \div 12) - 1
        /\ ret.value.name = NOTES[(new_index % 12) + 1]
        /\ recv = call.self

\* C10: get_name(12) is "P8", get_name(0) is "P1", and every other count maps
\* to the name of its value mod 12 (19 and 7 both give "P5").
C10_GetNameOctave ==
  call.op = "get_name" =>
     /\ call.semitones = 12 => ret.value = "P8"
     /\ call.semitones = 0 => ret.value = "P1"
     /\ call.semitones # 12 =>
           \E i \in 1..12 : /\ INTERVALS[i].value = call.semitones % 12
                            /\ INTERVALS[i].name = ret.value
     /\ call.semitones \in {7, 19} => ret.value = "P5"

\* C11: for every letter L and octave o, Note(L + "b" + o) equals
\* Note(L + o).transpose(-1), also for the letters C and F.
C11_FlatIsSemitoneBelow ==
  (/\ call.op = "Note"
   /\ Len(call.note_str) >= 3
   /\ IsLetter(call.note_str[1])
   /\ call.note_str[2] = "b"
   /\ \A i \in 3..Len(call.note_str) : IsDigit(call.note_str[i])) =>
     LET natural == <<call.note_str[1]>> \o SubSeq(call.note_str, 3, Len(call.note_str))
     IN ret = transpose(NoteInit(natural).value, -1)

\* a string of the form <letter A-G>[# or b][digits], and nothing else
WellFormed(s) ==
  /\ Len(s) >= 1
  /\ IsLetter(s[1])
  /\ LET rest == IF Len(s) >= 2 /\ IsAccidental(s[2]) THEN 3 ELSE 2
     IN \A i \in rest..Len(s) : IsDigit(s[i])

\* C12: Note construction raises the invalid-format error for every string
\* that is not of the form <letter A-G>[# or b][digits], and returns a Note
\* for every string of that form.
C12_InvalidFormat ==
  call.op = "Note" =>
     (ret.raised = ValueError <=> ~WellFormed(call.note_str))

\* C13: every Note that construction accepts has a name of NOTES, so that
\* its midi_number is defined and is (octave + 1) * 12 + the index of the name.
C13_CanonicalName ==
  (call.op = "Note" /\ ret.raised = "None") =>
     /\ \E i \in 1..Len(NOTES) : NOTES[i] = ret.value.name
     /\ \E i \in 0..11 : /\ NOTES[i + 1] = ret.value.name
                          /\ midi_number(ret.value) = (ret.value.octave + 1) * 12 + i
     /\ transpose(ret.value, 0).raised = "None"

\* C15: for every Note n obtained from a valid note string, constructing a
\* Note from str(n) gives a Note equal to n.
C15_StrRoundTrip ==
  call.op = "str" => NoteInit(ret.value) = Returned(call.self)

\* C15 witness: the string of a note of octave 10 has been formed
C15_Witness ==
  /\ call.op = "str"
  /\ call.self = [name |-> <<"A">>, octave |-> 10]
  /\ ret.value = <<"A", "1", "0">>

(***************************************************************************)
(* Claims about Chord, Scale and the cross-queries of the engine           *)
(***************************************************************************)
C4Note == [name |-> <<"C">>, octave |-> 4]
D4Note == [name |-> <<"D">>, octave |-> 4]
E4Note == [name |-> <<"E">>, octave |-> 4]
G4Note == [name |-> <<"G">>, octave |-> 4]
G5Note == [name |-> <<"G">>, octave |-> 5]

CMajorScale == Scale(C4Note, <<"M", "a", "j", "o", "r">>, <<0, 2, 4, 5, 7, 9, 11>>)

CMajorChord == Chord(C4Note, <<"M", "a", "j", "o", "r">>, <<0, 4, 7>>)

\* the pitch-class names of a chord's or scale's notes
NoteNames(x) == {x.notes[i].name : i \in 1..Len(x.notes)}

\* the element of notes at the first position after the root whose formula
\* offset satisfies Wanted, as a list of zero or one notes
FirstTone(x, Wanted(_)) ==
  LET hits == {i \in 2..Len(x.formula) : Wanted(x.formula[i])}
  IN IF hits = {} THEN <<>>
     ELSE <<x.notes[CHOOSE i \in hits : \A j \in hits : i <= j]>>

\* the third-equivalent offsets of a chord type name
ThirdEquivalent(chord_type) ==
  IF Contains(chord_type, <<"s", "u", "s", "2">>) THEN {2}
  ELSE IF Contains(chord_type, <<"s", "u", "s", "4">>) THEN {5}
  ELSE {3, 4}

\* C6: get_chords_in_scale emits a chord for (degree d, chord type t) iff every
\* tone of the chord of type t rooted at d has a name of the scale's notes;
\* every emitted chord is such a chord; C4 Major yields C4 Major and D4 Minor.
C6_ChordsInScale ==
  call.op = "get_chords_in_scale" =>
    LET sc == call.scale
        ChordAt(d, t) == Chord(sc.notes[d], chord_formulas[t].name,
                               chord_formulas[t].formula)
    IN /\ \A d \in 1..Len(sc.notes), t \in 1..Len(chord_formulas) :
            (\E k \in 1..Len(ret.value) : ret.value[k] = ChordAt(d, t))
              <=> (NoteNames(ChordAt(d, t)) \subseteq NoteNames(sc))
       /\ \A k \in 1..Len(ret.value) :
            \E d \in 1..Len(sc.notes), t \in 1..Len(chord_formulas) :
               ret.value[k] = ChordAt(d, t)
       /\ sc = CMajorScale =>
            /\ \E k \in 1..Len(ret.value) :
                 ret.value[k].root = C4Note /\ ret.value[k].chord_type = <<"M", "a", "j", "o", "r">>
            /\ \E k \in 1..Len(ret.value) :
                 ret.value[k].root = D4Note /\ ret.value[k].chord_type = <<"M", "i", "n", "o", "r">>

\* C6 witness: the call on C4 Major has returned, with chords emitted
C6_Witness ==
  /\ call.op = "get_chords_in_scale"
  /\ call.scale = CMajorScale
  /\ Len(ret.value) > 0

\* C7: get_scales_for_chord returns the scale of type t rooted at chord note i
\* iff every chord tone has a name of that scale's notes, for every registered
\* scale type and every note of the chord; nothing else is returned.
C7_ScalesForChord ==
  call.op = "get_scales_for_chord" =>
    LET ch == call.chord
        ScaleAt(i, t) == Scale(ch.notes[i], scale_formulas[t].name,
                               scale_formulas[t].formula)
    IN /\ \A i \in 1..Len(ch.notes), t \in 1..Len(scale_formulas) :
            (\E k \in 1..Len(ret.value) : ret.value[k] = ScaleAt(i, t))
              <=> (NoteNames(ch) \subseteq NoteNames(ScaleAt(i, t)))
       /\ \A k \in 1..Len(ret.value) :
            \E i \in 1..Len(ch.notes), t \in 1..Len(scale_formulas) :
               ret.value[k] = ScaleAt(i, t)

\* C7 witness: for C4 Major the result holds a scale rooted at a chord note
\* that is not the chord's root (G4 Major)
C7_Witness ==
  /\ call.op = "get_scales_for_chord"
  /\ call.chord = CMajorChord
  /\ \E k \in 1..Len(ret.value) : ret.value[k].root = G4Note /\ ret.value[k].scale_type = <<"M", "a", "j", "o", "r">>

\* C8: for every degree k in 1..len(notes), get_mode(k) is a new Scale with
\* root notes[k-1] and formula (formula[(k-1+i) mod len] - formula[k-1]) mod 12
\* at position i, 0 at position 0; C4 Major get_mode(2) is D4 with the Dorian
\* formula; the scale it is called on is left as it was.
C8_GetMode ==
  (call.op = "get_mode" /\ call.degree \in 1..Len(call.self.notes)) =>
    LET sc == call.self
        k  == call.degree
        n  == Len(sc.formula)
    IN /\ ret.raised = "None"
       /\ ret.value.root = sc.notes[k]
       /\ Len(ret.value.formula) = n
       /\ \A i \in 0..(n - 1) :
            ret.value.formula[i + 1] = (sc.formula[((k - 1 + i) % n) + 1] - sc.formula[k]) % 12
       /\ ret.value.formula[1] = 0
       /\ (sc = CMajorScale /\ k = 2) =>
            (ret.value.root = D4Note /\ ret.value.formula = <<0, 2, 3, 5, 7, 9, 10>>)
       /\ recv = sc

\* C8 witness: get_mode(2) of C4 Major has returned a scale
C8_Witness ==
  /\ call.op = "get_mode"
  /\ call.self = CMajorScale
  /\ call.degree = 2
  /\ ret.raised = "None"
  /\ ret.value.root = D4Note

C19_EmissionOrder ==
  call.op = "get_chords_in_scale" =>
    LET sc == call.scale
        r  == ret.value
        DegreeOf(c) == CHOOSE d \in 1..Len(sc.notes) : sc.notes[d] = c.root
        TypeOf(c)   == CHOOSE t \in 1..Len(chord_formulas) :
                          chord_formulas[t].name = c.chord_type
    IN \A k, l \in 1..Len(r) :
          k < l => \/ DegreeOf(r[k]) < DegreeOf(r[l])
                   \/ /\ DegreeOf(r[k]) = DegreeOf(r[l])
                      /\ TypeOf(r[k]) < TypeOf(r[l])

\* C19 witness: C4 Major yields two chord types on C4, the later registered
\* one second, before the first chord on D4
C19_Witness ==
  /\ call.op = "get_chords_in_scale"
  /\ call.scale = CMajorScale
  /\ Len(ret.value) >= 3
  /\ ret.value[1] = CMajorChord
  /\ ret.value[2] = Chord(C4Note, <<"m", "a", "j", "7">>, <<0, 4, 7, 11>>)
  /\ \E k \in 3..Len(ret.value) : ret.value[k].root = D4Note

\* C21: the construction of the engine raises the data-unavailable error
\* (RuntimeError) whenever one of the three table files, whichever it is, is
\* missing or malformed; otherwise it yields an engine with the three tables.
C21_DataUnavailable ==
  call.op = "MusicTheory" =>
    IF /\ call.files.chord_formulas.kind = "table"
       /\ call.files.scale_formulas.kind = "table"
       /\ call.files.tunings.kind = "table"
    THEN ret = Returned([chord_formulas |-> call.files.chord_formulas.value,
                         scale_formulas |-> call.files.scale_formulas.value,
                         tunings        |-> call.files.tunings.value])
    ELSE ret = Raised("RuntimeError")

\* C23: what the core hands out shares no list with the engine or with
\* another object: whatever a caller does to a returned formula or triad
\* list, the tables stay as loaded and the chord whose triad was asked for
\* keeps its notes.
C23_NoSharedState ==
  /\ tables = <<CHORD_FORMULAS, SCALE_FORMULAS, TUNINGS>>
  /\ call.op = "get_triad" => recv = call.self

\* C30: for every scale s of get_scale and every chord c of
\* get_chords_in_scale(s) whose root is the root of s, get_scales_for_chord(c)
\* holds a scale of the type of s on that root.
C30_CrossQueriesAgree ==
  (call.op = "cross_query" /\ call.chord.root = call.scale.root) =>
     \E k \in 1..Len(ret.value) :
        /\ ret.value[k].scale_type = call.scale.scale_type
        /\ ret.value[k].root = call.scale.root

\* C30 witness: C4 Major is among the scales found for the C4 Major chord
\* that C4 Major yields
C30_Witness ==
  /\ call.op = "cross_query"
  /\ call.scale = CMajorScale
  /\ call.chord = CMajorChord
  /\ \E k \in 1..Len(ret.value) : ret.value[k] = CMajorScale

\* a Chord or a Scale has been constructed
Constructed == call.op \in {"Chord", "Scale"} /\ ret.raised = "None"

\* C14 as stated: for every root and every formula, also an empty one or one
\* that does not start at 0, notes[0] == root, len(notes) == len(formula) and
\* notes[i] == root.transpose(formula[i]) for every i.
C14_NotesFollowFormula ==
  Constructed =>
    /\ ret.value.notes[1] = call.root
    /\ Len(ret.value.notes) = Len(call.formula)
    /\ \A i \in 1..Len(call.formula) :
         Returned(ret.value.notes[i]) = transpose(call.root, call.formula[i])

\* C14 amended: notes[0] == root whatever formula[0] is, len(notes) is
\* len(formula) for a non-empty formula and 1 for an empty one, and
\* notes[i] == root.transpose(formula[i]) for every i >= 1.
C14_BuildNotes ==
  Constructed =>
    /\ ret.value.notes[1] = call.root
    /\ Len(ret.value.notes) = (IF Len(call.formula) = 0 THEN 1 ELSE Len(call.formula))
    /\ \A i \in 2..Len(call.formula) :
         Returned(ret.value.notes[i]) = transpose(call.root, call.formula[i])
    /\ (call.root = C4Note /\ call.formula = <<0, 4, 7>>) =>
         ret.value.notes = <<C4Note, E4Note, G4Note>>

\* C14 witness: a chord built on C4 from the formula [3, 7] has the notes
\* C4 and G4
C14_Witness ==
  /\ call.op = "Chord"
  /\ call.root = C4Note
  /\ call.formula = <<3, 7>>
  /\ ret = Returned(Chord(C4Note, call.type, <<3, 7>>))
  /\ ret.value.notes = <<C4Note, G4Note>>

\* C17: get_mode raises the invalid-degree error for every degree below 1 or
\* above len(notes) and then leaves the scale as it was; it returns a Scale
\* for every degree in 1..len(notes).
C17_InvalidDegree ==
  call.op = "get_mode" =>
    IF call.degree < 1 \/ call.degree > Len(call.self.notes)
    THEN ret = Raised(ValueError) /\ recv = call.self
    ELSE /\ ret.raised = "None"
         /\ ret.value = Scale(ret.value.root, ret.value.scale_type, ret.value.formula)

\* C17 witness: get_mode was asked for the degree after the last one
C17_Witness ==
  /\ call.op = "get_mode"
  /\ call.self = CMajorScale
  /\ call.degree = 8
  /\ ret = Raised(ValueError)

\* C18: get_triad never raises: it returns between 1 and 3 of the chord's own
\* notes, the root first and no chord note twice; all the notes of a chord of
\* fewer than 3; fewer than 3 notes when no third or fifth qualifies.
C18_TriadNeverFails ==
  call.op = "get_triad" =>
    LET ch == call.self
        r  == ret.value
    IN /\ ret.raised = "None"
       /\ Len(ch.notes) >= 3 => \A i \in 1..Len(ch.notes) : NameKnown(ch.notes[i])
       /\ Len(r) \in 1..3
       /\ r[1] = ch.root
       /\ \E idx \in [1..Len(r) -> 1..Len(ch.notes)] :
            /\ \A k \in 1..Len(r) : r[k] = ch.notes[idx[k]]
            /\ \A k, l \in 1..Len(r) : k # l => idx[k] # idx[l]
       /\ Len(ch.notes) < 3 => r = ch.notes

\* C18 witness: a chord of three notes with neither a third nor a fifth
\* yields its root alone
C18_Witness ==
  /\ call.op = "get_triad"
  /\ call.self = Chord(C4Note, <<"a", "d", "d", "9">>, <<0, 2, 6>>)
  /\ ret = Returned(<<C4Note>>)

\* a formula that starts at 0, is strictly increasing and stays below 12
RegularFormula(f) ==
  /\ Len(f) >= 1
  /\ f[1] = 0
  /\ \A i \in 1..(Len(f) - 1) : f[i] < f[i + 1]
  /\ \A i \in 1..Len(f) : f[i] < 12

\* C25: for every scale whose formula starts at 0, is strictly increasing and
\* stays below 12, and every degree k in 1..len(notes), the formula of
\* get_mode(k) starts at 0, is strictly increasing and stays below 12.
C25_ModeFormulaRegular ==
  (/\ call.op = "get_mode"
   /\ RegularFormula(call.self.formula)
   /\ call.degree \in 1..Len(call.self.notes)) =>
     /\ ret.raised = "None"
     /\ RegularFormula(ret.value.formula)

\* C25 witness: the seventh mode of C4 Major, whose offsets all wrap but the
\* first
C25_Witness ==
  /\ call.op = "get_mode"
  /\ call.self = CMajorScale
  /\ call.degree = 7
  /\ ret.raised = "None"
  /\ ret.value.formula = <<0, 1, 3, 5, 6, 8, 10>>

\* C29: for every scale and every valid degree k, the notes of get_mode(k)
\* have the same set of pitch-class names as the notes of the scale;
\* get_mode(1) has the scale's root and, when the scale's formula starts at 0
\* with offsets below 12, the scale's formula.
C29_ModeKeepsPitchClasses ==
  (call.op = "get_mode" /\ call.degree \in 1..Len(call.self.notes)) =>
     /\ ret.raised = "None"
     /\ NoteNames(ret.value) = NoteNames(call.self)
     /\ call.degree = 1 =>
          /\ ret.value.root = call.self.root
          /\ (/\ call.self.formula[1] = 0
              /\ \A i \in 1..Len(call.self.formula) : call.self.formula[i] < 12) =>
                ret.value.formula = call.self.formula

(***************************************************************************)
(* Claims about get_chord_positions                                        *)
(***************************************************************************)
\* a call of get_chord_positions has returned a list of positions
PositionsReturned == call.op = "get_chord_positions" /\ ret.raised = "None"

\* the note strings of the open strings of the tuning of the call
OpenStrings == Lookup(tunings, call.tuning).notes

\* the pitch-class name sounded by an open-string note string at a fret
FrettedName(note_str, fret) ==
  NOTES[((Index(NOTES, NoteInit(note_str).value.name) + fret) % 12) + 1]

\* the constraints of the search on a fret list and a finger list
ValidAssignment(frets, fingers) ==
  LET n == Len(OpenStrings)
  IN /\ Len(frets) = n
     /\ Len(fingers) = n
     /\ \A i \in 1..n : frets[i] \in 0..call.max_fret /\ fingers[i] \in 1..4
     /\ \A i \in 1..n : FrettedName(OpenStrings[i], frets[i]) \in NoteNames(call.chord)
     /\ \A i \in 2..n : frets[i] - frets[i - 1] \in -4..4
     /\ \A i, j \in 1..n : i # j => fingers[i] # fingers[j]

\* the lowest fret of a fret list
MinOf(list) == CHOOSE x \in {list[i] : i \in 1..Len(list)} :
                 \A i \in 1..Len(list) : x <= list[i]

\* C1: no returned position has frets spanning more than 4 over all its
\* strings: max(frets) - min(frets) <= 4.
C1_FretSpan ==
  PositionsReturned =>
    \A k \in 1..Len(ret.value) :
       MaxOf(ret.value[k].frets) - MinOf(ret.value[k].frets) <= 4

\* C2: every returned position has one fret in 0..max_fret and one finger in
\* 1..4 per string, every fretted note has the name of a chord tone, each
\* fret differs from the previous string's by at most 4, and no finger
\* number occurs twice.
C2_SearchConstraints ==
  PositionsReturned =>
    \A k \in 1..Len(ret.value) :
       ValidAssignment(ret.value[k].frets, ret.value[k].fingers)

\* C2 witness: positions were returned for a tuning of four strings
C2_Witness ==
  /\ PositionsReturned
  /\ Len(OpenStrings) = 4
  /\ Len(ret.value) > 0

\* the value the result is sorted by: (number of distinct fingers, max fret)
C3Key(frets, fingers) ==
  <<Cardinality({fingers[i] : i \in 1..Len(fingers)}), MaxOf(frets)>>

\* C3: the result has at most 10 positions, ascending by (number of distinct
\* fingers, maximum fret), and every valid assignment that is not returned has
\* a key greater than or equal to that of the last returned position.
C3_TopTen ==
  PositionsReturned =>
    LET r == ret.value
        n == Len(OpenStrings)
        InResult(frets, fingers) ==
          \E k \in 1..Len(r) : r[k].frets = frets /\ r[k].fingers = fingers
    IN /\ Len(r) <= 10
       /\ \A k \in 1..(Len(r) - 1) :
            KeyLE(C3Key(r[k].frets, r[k].fingers), C3Key(r[k + 1].frets, r[k + 1].fingers))
       /\ \A fingers \in {g \in [1..n -> 1..4] : \A i, j \in 1..n : i # j => g[i] # g[j]} :
            \A frets \in [1..n -> 0..call.max_fret] :
               ValidAssignment(frets, fingers) =>
                 \/ InResult(frets, fingers)
                 \/ /\ Len(r) = 10
                    /\ KeyLE(C3Key(r[10].frets, r[10].fingers), C3Key(frets, fingers))

\* C3 witness: A4 Minor on the three strings G3 B3 D4 up to fret 5, where the
\* search finds frets [2,5,2] before it has found every fingering of [2,1,2]:
\* the ten positions returned are all of [2,1,2]
C3_Witness ==
  /\ PositionsReturned
  /\ call.chord = Chord([name |-> <<"A">>, octave |-> 4], <<"M", "i", "n", "o", "r">>,
                        <<0, 3, 7>>)
  /\ call.tuning = "open_g"
  /\ call.max_fret = 5
  /\ Len(ret.value) = 10
  /\ ret.value[7] = ChordPosition(<<2, 1, 2>>, <<2, 1, 3>>, <<>>)
  /\ ValidAssignment(<<2, 5, 2>>, <<1, 2, 3>>)

\* C20: a position carries a barre exactly when all of its frets are the same
\* and not 0, and the barre is then (string 0, that fret); every other
\* position has no barre.
C20_Barre ==
  PositionsReturned =>
    \A k \in 1..Len(ret.value) :
       LET p == ret.value[k]
       IN IF /\ \A i, j \in 1..Len(p.frets) : p.frets[i] = p.frets[j]
             /\ p.frets[1] # 0
          THEN p.barre = <<0, p.frets[1]>>
          ELSE p.barre = <<>>

\* C20 witness: A4 Major on the strings G3 B3 D4 is played with every string
\* at fret 2
C20_Witness ==
  /\ PositionsReturned
  /\ call.tuning = "open_g"
  /\ Len(ret.value) > 0
  /\ ret.value[1].frets = <<2, 2, 2>>
  /\ ret.value[1].barre = <<0, 2>>

(***************************************************************************)
(* The engine's frame and the search of get_chord_positions step by step   *)
(***************************************************************************)
\* the tables as the construction of the engine loaded them
LoadedTables == <<CHORD_FORMULAS, SCALE_FORMULAS, TUNINGS>>

\* the call under way is a get_chord_positions whose tuning is registered
RegisteredTuning == call.op = "get_chord_positions" /\ HasKey(tunings, call.tuning)

C24_NoPositionsBeyondFourStrings ==
  (RegisteredTuning /\ Len(OpenStrings) > 4) =>
     /\ Len(search.current_frets) <= 4
     /\ Len(search.current_fingers) <= 4
     /\ search.positions = <<>>
     /\ ret.raised = "None" => ret.value = <<>>

\* C24 witness: G Major on the five strings G4 D3 G3 B3 D4, whose open
\* strings are all tones of the chord, searched up to fret 1, returns nothing
C24_Witness ==
  /\ RegisteredTuning
  /\ Len(OpenStrings) = 5
  /\ \A i \in 1..5 : FrettedName(OpenStrings[i], 0) \in NoteNames(call.chord)
  /\ call.max_fret = 1
  /\ search.pc = "done"
  /\ ret = Returned(<<>>)

\* C27: a tuning that is no key of the tunings table, or a max_fret below 0
\* or above 24, makes get_chord_positions fail with an error before any
\* search is done and without positions; every max_fret in 0..24 with a
\* registered tuning is accepted.
C27_InvalidInputsRejected ==
  call.op = "get_chord_positions" =>
    IF HasKey(tunings, call.tuning) /\ call.max_fret \in 0..24
    THEN ret.raised \in {"Pending", "None"}
    ELSE ret = Raised(ValueError) /\ search = SearchIdle

\* C27 witness: max_fret 24 is accepted and the search returns positions
C27_Witness ==
  /\ RegisteredTuning
  /\ call.max_fret = 24
  /\ search.pc = "done"
  /\ ret.raised = "None"
  /\ Len(ret.value) > 0

\* C28: the search of get_chord_positions terminates for every chord,
\* registered tuning and max_fret in 0..24: a call that has passed the checks
\* of its arguments returns a list, and the lists of the chosen frets and
\* fingers are then empty again.
C28_SearchTerminates ==
  (search.pc # "idle") ~>
     (/\ search.pc = "done"
      /\ search.current_frets = <<>>
      /\ search.current_fingers = <<>>
      /\ search.stack = <<>>
      /\ ret.raised = "None")

\* C28 witness: a search over three strings that has backtracked, recorded
\* positions and ended with nothing chosen
C28_Witness ==
  /\ RegisteredTuning
  /\ Len(OpenStrings) = 3
  /\ call.max_fret = 2
  /\ search.pc = "done"
  /\ search.current_frets = <<>> /\ search.current_fingers = <<>>
  /\ Len(ret.value) > 1

(***************************************************************************)
(* Claims about the triad positions of the fretboard                       *)
(***************************************************************************)
\* the names of the triad of the chord shown on the canvas of the call
TriadNames ==
  LET triad == get_triad(call.self.current_chord[1])
  IN {triad[i].name : i \in 1..Len(triad)}

\* C26: a triad position selected for a chord whose triad has three tones is
\* three (string, fret) pairs on three different strings that sound the three
\* tones of the triad, with a fret span of at most 4 and a string span of at
\* most 3.
C26_TriadPositions ==
  (/\ call.op = "set_random_triad_position"
   /\ call.self.current_chord # <<>>
   /\ recv.current_position # <<>>
   /\ Cardinality(TriadNames) = 3) =>
     LET p == recv.current_position
     IN /\ Len(p) = 3
        /\ \A i, j \in 1..Len(p) : i # j => p[i][1] # p[j][1]
        /\ {fretted_name(p[i][1], p[i][2]) : i \in 1..Len(p)} = TriadNames
        /\ \A i, j \in 1..Len(p) : p[i][2] - p[j][2] <= 4
        /\ \A i, j \in 1..Len(p) : p[i][1] - p[j][1] <= 3

====
